---- MODULE Spec2Model ----
(***************************************************************************)
(* Record reconciliation of scripts/generate_drug_prices.py:               *)
(* deduplicate_records (one snapshot), aggregate_records (all snapshots)   *)
(* and the main pipeline that chains them.                                 *)
(*                                                                         *)
(* Python values are modelled as tagged records [t, v]: t is the Python    *)
(* type, v a sequence (the code points of a str, the number of an int or   *)
(* float, the items of a list or dict).  A Python dict is a function from  *)
(* its keys to values; a key that is absent is outside the DOMAIN.         *)
(***************************************************************************)
EXTENDS Integers, Sequences, FiniteSets, TLC

\* ------------------------------------------------------------------------
\* Bounds of the model
\* ------------------------------------------------------------------------
MaxDedupRows == 3    \* rows of the snapshot handed to deduplicate_records
MaxAggRows == 3      \* records handed directly to aggregate_records
MaxFileRows == 2     \* rows of one snapshot file in main
MaxFaqs == 3         \* FAQs handed to dedupe_faqs
MaxPages == 5        \* pages of the FAQ site
MaxEmptyPages == 2   \* the largest --max-empty-pages

\* ------------------------------------------------------------------------
\* Python values
\* ------------------------------------------------------------------------
None == [t |-> "None", v |-> <<>>]
Str(s) == [t |-> "str", v |-> s]
Num(n) == [t |-> "num", v |-> <<n>>]
List(s) == [t |-> "list", v |-> s]
Dict(s) == [t |-> "dict", v |-> s]
EmptyStr == Str(<<>>)
EmptyList == List(<<>>)

\* dict.get(field): None for an absent key
get(record, field) == IF field \in DOMAIN record THEN record[field] ELSE None

\* Python truthiness of the values that occur (x or default)
truthy(x) == ~(x = None \/ x.v = <<>> \/ x = Num(0))

\* Python's ordering of tuples of ints and of str (by code point):
\* lexicographic, a proper prefix is smaller.
RECURSIVE tuple_lt(_, _)
tuple_lt(a, b) ==
    IF b = <<>> THEN FALSE
    ELSE IF a = <<>> THEN TRUE
    ELSE IF Head(a) = Head(b) THEN tuple_lt(Tail(a), Tail(b))
    ELSE Head(a) < Head(b)

tuple_ge(a, b) == ~tuple_lt(a, b)

\* ------------------------------------------------------------------------
\* Field tables
\* ------------------------------------------------------------------------
DESCRIPTOR_FIELDS ==
    << "product_name", "active_substance", "atc_code", "dose",
       "pharmaceutical_form", "packaging", "marketing_authorisation_holder",
       "manufacturer", "authorization_number" >>

STATIC_FIELDS == <<"serial_number">> \o DESCRIPTOR_FIELDS

PRICE_FIELDS == << "price_wholesale", "price_with_margin", "price_retail" >>

PRICE_META_FIELDS == << "valid_until", "reference_prices", "reference_prices_secondary" >>

DEDUPLICATION_FIELDS ==
    << "atc_code", "authorization_number", "product_name", "dose", "packaging" >>

Range(s) == { s[i] : i \in 1..Len(s) }

\* ------------------------------------------------------------------------
\* version_key: "2.10" -> (2, 10)
\* ------------------------------------------------------------------------
Dot == 46     \* ord(".")
Zero == 48    \* ord("0")

\* str.split("."): the tokens between the dots
RECURSIVE split(_, _)
split(s, acc) ==
    IF s = <<>> THEN <<acc>>
    ELSE IF Head(s) = Dot THEN <<acc>> \o split(Tail(s), <<>>)
    ELSE split(Tail(s), Append(acc, Head(s)))

\* int(token) of a token of decimal digits
RECURSIVE int(_, _)
int(token, acc) ==
    IF token = <<>> THEN acc
    ELSE int(Tail(token), acc * 10 + (Head(token) - Zero))

\* int(token) raises ValueError: the token is empty or holds a character
\* that is no decimal digit.  (int() also strips blanks and takes a sign and
\* single underscores; the labels of the model hold digits, dots and letters.)
int_raises(token) ==
    token = <<>> \/ \E i \in 1..Len(token) : token[i] \notin Zero..(Zero + 9)

\* version_key(version) raises ValueError
version_key_raises(version) ==
    LET tokens == split(version.v, <<>>)
    IN  \E i \in 1..Len(tokens) : int_raises(tokens[i])

\* variant: the version compared as text, not as a tuple of ints
version_key_lexical(version) == version.v

version_key(version) ==
    LET tokens == split(version.v, <<>>)
    IN  [i \in 1..Len(tokens) |-> int(tokens[i], 0)]

\* ------------------------------------------------------------------------
\* Keys and the merge rule
\* ------------------------------------------------------------------------
\* variant: the bucket key built from DEDUPLICATION_FIELDS only
record_key_narrow(record) ==
    [i \in 1..Len(DEDUPLICATION_FIELDS) |-> get(record, DEDUPLICATION_FIELDS[i])]

record_key(record) ==
    [i \in 1..Len(DESCRIPTOR_FIELDS) |-> get(record, DESCRIPTOR_FIELDS[i])]

\* variant: the arguments swapped (prefer the incoming value)
pick_best_incoming(value_a, value_b) ==
    IF value_b \notin {None, EmptyStr, EmptyList} THEN value_b ELSE value_a

pick_best(value_a, value_b) ==
    IF value_a \notin {None, EmptyStr, EmptyList} THEN value_a ELSE value_b

\* the None that deduplication_key returns; a real key has five components
NoKey == <<>>

\* variant: no test for a null component
deduplication_key_any(record) ==
    [i \in 1..Len(DEDUPLICATION_FIELDS) |-> get(record, DEDUPLICATION_FIELDS[i])]

deduplication_key(record) ==
    LET key == [i \in 1..Len(DEDUPLICATION_FIELDS) |->
                    get(record, DEDUPLICATION_FIELDS[i])]
    IN  IF \E i \in 1..Len(key) : key[i] = None THEN NoKey ELSE key

\* ------------------------------------------------------------------------
\* deduplicate_records
\* The records are objects: objs is the list passed in, whose elements the
\* loop mutates in place; unique maps a key to the position of the surviving
\* object, ordered lists the positions of the objects of the returned list.
\* ------------------------------------------------------------------------
\* lines 279-280: for field, value in record.items(): existing[field] = ...
merge_into(existing, record) ==
    [field \in DOMAIN existing \cup DOMAIN record |->
        IF field \in DOMAIN record
        THEN pick_best(get(existing, field), record[field])
        ELSE existing[field]]

\* variant: unique.pop(key) in place of unique.get(key)
dedup_step_pop(st, i) ==
    LET record == st.objs[i]
        key == deduplication_key(record)
    IN  IF key = NoKey THEN [st EXCEPT !.ordered = Append(@, i)]
        ELSE IF key \notin DOMAIN st.unique
        THEN [st EXCEPT !.unique = (key :> i) @@ @, !.ordered = Append(@, i)]
        ELSE [objs |-> [st.objs EXCEPT ![st.unique[key]] = merge_into(@, record)],
              unique |-> [k \in DOMAIN st.unique \ {key} |-> st.unique[k]],
              ordered |-> st.ordered]

\* variant: the first record of a key is not registered in unique
dedup_step_noreg(st, i) ==
    LET record == st.objs[i]
        key == deduplication_key(record)
    IN  IF key = NoKey THEN [st EXCEPT !.ordered = Append(@, i)]
        ELSE IF key \notin DOMAIN st.unique
        THEN [st EXCEPT !.ordered = Append(@, i)]
        ELSE [st EXCEPT !.objs[st.unique[key]] = merge_into(@, record)]

\* variant: a merge moves the surviving record to the end of the output
dedup_step_moves(st, i) ==
    LET record == st.objs[i]
        key == deduplication_key(record)
    IN  IF key = NoKey THEN [st EXCEPT !.ordered = Append(@, i)]
        ELSE IF key \notin DOMAIN st.unique
        THEN [st EXCEPT !.unique = (key :> i) @@ @, !.ordered = Append(@, i)]
        ELSE [st EXCEPT
                !.objs[st.unique[key]] = merge_into(@, record),
                !.ordered = Append(SelectSeq(@, LAMBDA p : p # st.unique[key]),
                                   st.unique[key])]

\* variant: the merge written into the incoming record
dedup_step_incoming(st, i) ==
    LET record == st.objs[i]
        key == deduplication_key(record)
    IN  IF key = NoKey THEN [st EXCEPT !.ordered = Append(@, i)]
        ELSE IF key \notin DOMAIN st.unique
        THEN [st EXCEPT !.unique = (key :> i) @@ @, !.ordered = Append(@, i)]
        ELSE [st EXCEPT !.objs[i] = merge_into(st.objs[st.unique[key]], record)]

\* one iteration of the loop of lines 269-280
dedup_step(st, i) ==
    LET record == st.objs[i]
        key == deduplication_key(record)
    IN  IF key = NoKey THEN [st EXCEPT !.ordered = Append(@, i)]
        ELSE IF key \notin DOMAIN st.unique
        THEN [st EXCEPT !.unique = (key :> i) @@ @, !.ordered = Append(@, i)]
        ELSE [st EXCEPT !.objs[st.unique[key]] = merge_into(@, record)]

RECURSIVE dedup_loop(_, _)
dedup_loop(st, i) ==
    IF i > Len(st.objs) THEN st ELSE dedup_loop(dedup_step(st, i), i + 1)

\* the state at the return of line 281
dedup_run(records) ==
    dedup_loop([objs |-> records, unique |-> <<>>, ordered |-> <<>>], 1)

\* the returned list, by value
deduplicate_records(records) ==
    LET st == dedup_run(records)
    IN  [k \in 1..Len(st.ordered) |-> st.objs[st.ordered[k]]]

\* ------------------------------------------------------------------------
\* aggregate_records
\* aggregated is a dict: keys lists its keys in insertion order, entries maps
\* a key to its bucket.
\* ------------------------------------------------------------------------
\* variant: the snapshot keeps the fields whose value is null
make_snapshot_full(record) ==
    [f \in {"version"} \cup Range(PRICE_FIELDS \o PRICE_META_FIELDS) |-> get(record, f)]

\* lines 296-300: the sparse price snapshot of a record
make_snapshot(record) ==
    LET present == { f \in Range(PRICE_FIELDS \o PRICE_META_FIELDS) :
                        get(record, f) # None }
    IN  [f \in {"version"} \cup present |-> record[f]]

\* lines 289-294: the bucket created for the first record of a key
new_entry(record) ==
    [ data |-> [f \in Range(STATIC_FIELDS) |-> get(record, f)],
      latest_version |-> None,
      latest_snapshot |-> <<>>,
      history |-> <<>> ]

\* variant: the fields of the running snapshot keep the existing value
fold_entry_keep(entry, record) ==
    LET snapshot == make_snapshot(record)
        appended == [entry EXCEPT !.history = Append(@, snapshot)]
    IN  IF \/ entry.latest_version = None
           \/ tuple_ge(version_key(record["version"]), version_key(entry.latest_version))
        THEN [appended EXCEPT
                !.latest_version = record["version"],
                !.data = [f \in DOMAIN @ |-> pick_best(@[f], get(record, f))],
                !.latest_snapshot = snapshot]
        ELSE appended

\* variant: > in place of >= (the first record of a version stays latest)
fold_entry_strict(entry, record) ==
    LET snapshot == make_snapshot(record)
        appended == [entry EXCEPT !.history = Append(@, snapshot)]
    IN  IF \/ entry.latest_version = None
           \/ tuple_lt(version_key(entry.latest_version), version_key(record["version"]))
        THEN [appended EXCEPT
                !.latest_version = record["version"],
                !.data = [f \in DOMAIN @ |-> pick_best(get(record, f), @[f])],
                !.latest_snapshot = snapshot]
        ELSE appended

\* variant: no version comparison (the last record is always latest)
fold_entry_last(entry, record) ==
    LET snapshot == make_snapshot(record)
        appended == [entry EXCEPT !.history = Append(@, snapshot)]
    IN  [appended EXCEPT
            !.latest_version = record["version"],
            !.data = [f \in DOMAIN @ |-> pick_best(get(record, f), @[f])],
            !.latest_snapshot = snapshot]

\* lines 295-310: one record folded into its bucket
fold_entry(entry, record) ==
    LET snapshot == make_snapshot(record)
        appended == [entry EXCEPT !.history = Append(@, snapshot)]
    IN  IF \/ entry.latest_version = None
           \/ tuple_ge(version_key(record["version"]), version_key(entry.latest_version))
        THEN [appended EXCEPT
                !.latest_version = record["version"],
                !.data = [f \in DOMAIN @ |-> pick_best(get(record, f), @[f])],
                !.latest_snapshot = snapshot]
        ELSE appended

\* lines 302-305: the test raises ValueError; version_key is not called for
\* the first record of a bucket (latest_version is None)
fold_raises(entry, record) ==
    /\ entry.latest_version # None
    /\ (version_key_raises(record["version"])
            \/ version_key_raises(entry.latest_version))

\* lines 286-310: one iteration of the first loop; raised is set when the
\* iteration ends in a ValueError, which ends the loop
agg_step(agg, record) ==
    LET key == record_key(record)
        found == IF key \in DOMAIN agg.entries THEN agg
                 ELSE [ keys |-> Append(agg.keys, key),
                        entries |-> (key :> new_entry(record)) @@ agg.entries,
                        raised |-> FALSE ]
    IN  IF agg.raised THEN agg
        ELSE IF fold_raises(found.entries[key], record)
        THEN [found EXCEPT !.raised = TRUE]
        ELSE [found EXCEPT !.entries[key] = fold_entry(@, record)]

RECURSIVE agg_loop(_, _, _)
agg_loop(agg, recs, i) ==
    IF i > Len(recs) THEN agg ELSE agg_loop(agg_step(agg, recs[i]), recs, i + 1)

\* lines 327-331: sorted(history, key=version_key, reverse=True), a stable sort
RECURSIVE insert_history(_, _)
insert_history(sorted, snap) ==
    IF sorted = <<>> THEN <<snap>>
    ELSE IF tuple_lt(version_key(Head(sorted)["version"]), version_key(snap["version"]))
    THEN <<snap>> \o sorted
    ELSE <<Head(sorted)>> \o insert_history(Tail(sorted), snap)

RECURSIVE sort_history_from(_, _, _)
sort_history_from(sorted, history, i) ==
    IF i > Len(history) THEN sorted
    ELSE sort_history_from(insert_history(sorted, history[i]), history, i + 1)

\* variant: the history sorted on the version text, so no key is computed
sort_raises_never(history) == FALSE

\* lines 327-331: the key function is called for every entry, also of a
\* history of one entry, and raises ValueError for a malformed version
sort_raises(history) ==
    \E i \in 1..Len(history) : version_key_raises(history[i]["version"])

\* variant: the history left in arrival order
sort_history_unsorted(history) == history

sort_history(history) == sort_history_from(<<>>, history, 1)

\* variant: the static fields copied whether null or not
materialize_keep_null(entry) ==
    LET static == Range(STATIC_FIELDS)
        priced == { f \in Range(PRICE_FIELDS \o PRICE_META_FIELDS) :
                        get(entry.latest_snapshot, f) # None }
    IN  [f \in static \cup priced \cup {"latest_version", "version_history"} |->
            IF f = "latest_version" THEN entry.latest_version
            ELSE IF f = "version_history" THEN List(sort_history(entry.history))
            ELSE IF f \in priced THEN entry.latest_snapshot[f]
            ELSE entry.data[f]]

\* lines 314-333: the Logical Record of a bucket
materialize(entry) ==
    LET static == { f \in Range(STATIC_FIELDS) : get(entry.data, f) # None }
        priced == { f \in Range(PRICE_FIELDS \o PRICE_META_FIELDS) :
                        get(entry.latest_snapshot, f) # None }
    IN  [f \in static \cup priced \cup {"latest_version", "version_history"} |->
            IF f = "latest_version" THEN entry.latest_version
            ELSE IF f = "version_history" THEN List(sort_history(entry.history))
            ELSE IF f \in priced THEN entry.latest_snapshot[f]
            ELSE entry.data[f]]

\* variant: the results sorted on product_name alone
result_sort_key_name(rec) ==
    << IF truthy(get(rec, "product_name")) THEN rec["product_name"].v ELSE <<>>,
       <<>> >>

\* line 335: the sort key (product_name or "", packaging or "")
result_sort_key(rec) ==
    << IF truthy(get(rec, "product_name")) THEN rec["product_name"].v ELSE <<>>,
       IF truthy(get(rec, "packaging")) THEN rec["packaging"].v ELSE <<>> >>

pair_lt(a, b) == tuple_lt(a[1], b[1]) \/ (a[1] = b[1] /\ tuple_lt(a[2], b[2]))

\* line 335: results.sort(...), a stable sort
RECURSIVE insert_result(_, _)
insert_result(sorted, rec) ==
    IF sorted = <<>> THEN <<rec>>
    ELSE IF pair_lt(result_sort_key(rec), result_sort_key(Head(sorted)))
    THEN <<rec>> \o sorted
    ELSE <<Head(sorted)>> \o insert_result(Tail(sorted), rec)

RECURSIVE sort_results_from(_, _, _)
sort_results_from(sorted, results, i) ==
    IF i > Len(results) THEN sorted
    ELSE sort_results_from(insert_result(sorted, results[i]), results, i + 1)

\* aggregate_records(recs) ends in a ValueError: in the first loop, or when
\* the history of a bucket is sorted
aggregate_raises(recs) ==
    LET agg == agg_loop([keys |-> <<>>, entries |-> <<>>, raised |-> FALSE], recs, 1)
    IN  \/ agg.raised
        \/ \E i \in 1..Len(agg.keys) : sort_raises(agg.entries[agg.keys[i]].history)

\* the list aggregate_records(recs) returns when it does not raise
aggregate_records(recs) ==
    LET agg == agg_loop([keys |-> <<>>, entries |-> <<>>, raised |-> FALSE], recs, 1)
        results == [i \in 1..Len(agg.keys) |-> materialize(agg.entries[agg.keys[i]])]
    IN  sort_results_from(<<>>, results, 1)

\* ------------------------------------------------------------------------
\* Inputs: the rows the spreadsheet adapter (build_record) can hand over
\* ------------------------------------------------------------------------
With(record, field, value) ==
    [f \in DOMAIN record \cup {field} |-> IF f = field THEN value ELSE record[f]]

SeqUpTo(S, n) == UNION { [1..k -> S] : k \in 0..n }

V_2_9 == Str(<<50, 46, 57>>)        \* "2.9"
V_2_10 == Str(<<50, 46, 49, 48>>)   \* "2.10"
V_10 == Str(<<49, 48>>)             \* "10"
Versions == {V_2_9, V_2_10, V_10}

\* a fully populated row of snapshot "2.9" with the columns of COLUMN_MAP
BaseRow ==
    [ version |-> V_2_9,
      serial_number |-> Num(1),
      product_name |-> Str(<<65>>),
      active_substance |-> Str(<<83>>),
      atc_code |-> Str(<<67>>),
      dose |-> Str(<<68>>),
      pharmaceutical_form |-> Str(<<70>>),
      packaging |-> Str(<<80>>),
      marketing_authorisation_holder |-> Str(<<72>>),
      manufacturer |-> Str(<<77>>),
      authorization_number |-> Str(<<78>>),
      price_wholesale |-> Num(8),
      price_with_margin |-> Num(9),
      price_retail |-> Num(10),
      valid_until |-> Str(<<50, 48>>) ]

\* Rows of one snapshot for deduplicate_records: the same Deduplication Key
\* with every kind of empty and non-empty manufacturer, a row that carries a
\* reference_prices entry the others lack, a second key, and for each key
\* field a row where that field is null.
DedupPool ==
    { With(BaseRow, "manufacturer", m) :
        m \in {None, EmptyStr, EmptyList, Str(<<77>>), Str(<<78>>)} }
    \cup { With(With(With(BaseRow, "manufacturer", None), "price_retail", None),
                "reference_prices", Dict(<<5>>)) }
    \cup { With(With(BaseRow, "dose", Str(<<69>>)), "manufacturer", None) }
    \cup { With(BaseRow, DEDUPLICATION_FIELDS[i], None) :
        i \in 1..Len(DEDUPLICATION_FIELDS) }

\* ------------------------------------------------------------------------
\* State
\* ------------------------------------------------------------------------
VARIABLES
    pc,                 \* position of the run
    original,           \* the records as they were when the call was made
    records,            \* the objects of the list passed to deduplicate_records
    ordered,            \* the returned list: positions of its objects in records
    ordered2,           \* the list returned for the call on that output, likewise
    excel_files,        \* main: the snapshot versions still to process
    master_records,     \* main: master_records / the argument of aggregate_records
    summary,            \* main: per-snapshot summaries
    aggregated_records, \* the list aggregate_records returned
    written,            \* main: the output files written so far
    aggregated,         \* aggregate_records: the buckets while the loop runs
    pos,                \* aggregate_records: records the loop has taken
    faqs,               \* scraper: the argument of dedupe_faqs
    deduped,            \* scraper: the list dedupe_faqs returned
    page,               \* dump_streaming: the page the loop takes next
    total_pages,        \* dump_streaming: the last page of the range
    max_empty_pages,    \* dump_streaming: its parameter
    empty_streak,       \* dump_streaming: empty_streak
    added,              \* dump_streaming: added
    seen,               \* dump_streaming: the keys seen
    existing,           \* dump_streaming: the FAQs collected
    saved,              \* the content of the output file
    last_page,          \* the content of the state file
    log                 \* the "Page N: found X, new Y" lines on stderr

vars == << pc, original, records, ordered, ordered2, excel_files,
           master_records, summary, aggregated_records, written,
           aggregated, pos, faqs, deduped, page, total_pages,
           max_empty_pages, empty_streak, added, seen, existing, saved,
           last_page, log >>

\* the state of dump_streaming
stream_vars == << page, total_pages, max_empty_pages, empty_streak, added,
                  seen, existing, saved, last_page, log >>

\* the state of the FAQ scraper (scrape_atk_faq.py)
faq_vars == << faqs, deduped, stream_vars >>

\* dump_streaming has not been entered
NoStream ==
    /\ page = 0
    /\ total_pages = 0
    /\ max_empty_pages = 0
    /\ empty_streak = 0
    /\ added = 0
    /\ seen = {}
    /\ existing = <<>>
    /\ saved = <<>>
    /\ last_page = 0
    /\ log = <<>>

\* the FAQ scraper has not been entered
NoFaq == faqs = <<>> /\ deduped = <<>> /\ NoStream

\* the loop state of aggregate_records, used where the loop is run stepwise
fold_vars == << aggregated, pos >>

\* aggregate_records has not been entered stepwise
NoFold == aggregated = <<>> /\ pos = 0

\* ------------------------------------------------------------------------
\* deduplicate_records applied to one snapshot, then to its own output
\* ------------------------------------------------------------------------
InitDedup ==
    /\ pc = "call"
    /\ records \in SeqUpTo(DedupPool, MaxDedupRows)
    /\ original = records
    /\ ordered = <<>>
    /\ ordered2 = <<>>
    /\ excel_files = <<>>
    /\ master_records = <<>>
    /\ summary = <<>>
    /\ aggregated_records = <<>>
    /\ written = <<>>
    /\ NoFold
    /\ NoFaq

\* the list a variable refers to: the objects at the given positions
ListOf(positions) == [k \in 1..Len(positions) |-> records[positions[k]]]

Deduplicate ==
    /\ pc = "call"
    /\ LET st == dedup_run(records)
       IN  /\ records' = st.objs
           /\ ordered' = st.ordered
    /\ pc' = "returned"
    /\ UNCHANGED << original, ordered2, excel_files, master_records, summary,
                    aggregated_records, written >>
    /\ UNCHANGED fold_vars
    /\ UNCHANGED faq_vars

\* the second call receives the list the first one returned, so it works on
\* the same objects
DeduplicateAgain ==
    /\ pc = "returned"
    /\ LET st == dedup_run(ListOf(ordered))
       IN  /\ records' = [p \in 1..Len(records) |->
                            IF \E k \in 1..Len(ordered) : ordered[k] = p
                            THEN st.objs[CHOOSE k \in 1..Len(ordered) : ordered[k] = p]
                            ELSE records[p]]
           /\ ordered2' = [k \in 1..Len(st.ordered) |-> ordered[st.ordered[k]]]
    /\ pc' = "again"
    /\ UNCHANGED << original, ordered, excel_files, master_records, summary,
                    aggregated_records, written >>
    /\ UNCHANGED fold_vars
    /\ UNCHANGED faq_vars

NextDedup == Deduplicate \/ DeduplicateAgain

SpecDedup == InitDedup /\ [][NextDedup]_vars

\* ------------------------------------------------------------------------
\* aggregate_records applied to an arbitrary record list, in any order
\* ------------------------------------------------------------------------
\* Records of one product in the three versions with a retail price of 10,
\* 12 or none, and of two products that differ from it in one descriptor
\* field (another manufacturer, a null authorization_number), in two versions.
AggPool ==
    { With(With(BaseRow, "version", ver), "price_retail", p) :
        ver \in Versions, p \in {None, Num(10), Num(12)} }
    \cup { With(With(BaseRow, "version", ver), "manufacturer", Str(<<78>>)) :
        ver \in {V_2_9, V_10} }
    \cup { With(With(BaseRow, "version", ver), "authorization_number", None) :
        ver \in {V_2_9, V_2_10} }

InitAgg ==
    /\ pc = "call"
    /\ master_records \in SeqUpTo(AggPool, MaxAggRows)
    /\ original = <<>>
    /\ records = <<>>
    /\ ordered = <<>>
    /\ ordered2 = <<>>
    /\ excel_files = <<>>
    /\ summary = <<>>
    /\ aggregated_records = <<>>
    /\ written = <<>>
    /\ NoFold
    /\ NoFaq

Aggregate ==
    /\ pc = "call"
    /\ IF aggregate_raises(master_records)
       THEN pc' = "raised" /\ UNCHANGED aggregated_records
       ELSE /\ aggregated_records' = aggregate_records(master_records)
            /\ pc' = "returned"
    /\ UNCHANGED << original, records, ordered, ordered2, excel_files,
                    master_records, summary, written >>
    /\ UNCHANGED fold_vars
    /\ UNCHANGED faq_vars

NextAgg == Aggregate

SpecAgg == InitAgg /\ [][NextAgg]_vars

\* ------------------------------------------------------------------------
\* aggregate_records run one loop iteration at a time
\* ------------------------------------------------------------------------
\* Records of one product in two versions with a serial_number of 1, 2 or
\* none, the same without a retail price, and of a second product.
FoldPool ==
    { With(With(BaseRow, "version", ver), "serial_number", n) :
        ver \in {V_2_9, V_2_10}, n \in {None, Num(1), Num(2)} }
    \cup { With(With(BaseRow, "version", ver), "price_retail", None) :
            ver \in {V_2_9, V_2_10} }
    \cup { With(BaseRow, "manufacturer", Str(<<78>>)) }

InitFold ==
    /\ pc = "fold"
    /\ master_records \in SeqUpTo(FoldPool, MaxAggRows)
    /\ aggregated = [keys |-> <<>>, entries |-> <<>>, raised |-> FALSE]
    /\ pos = 0
    /\ original = <<>>
    /\ records = <<>>
    /\ ordered = <<>>
    /\ ordered2 = <<>>
    /\ excel_files = <<>>
    /\ summary = <<>>
    /\ aggregated_records = <<>>
    /\ written = <<>>
    /\ NoFaq

\* lines 286-310: one iteration of the loop over the records
FoldRecord ==
    /\ pc = "fold"
    /\ pos < Len(master_records)
    /\ pos' = pos + 1
    /\ aggregated' = agg_step(aggregated, master_records[pos'])
    /\ pc' = IF aggregated'.raised THEN "raised" ELSE "fold"
    /\ UNCHANGED << original, records, ordered, ordered2, excel_files,
                    master_records, summary, aggregated_records, written >>
    /\ UNCHANGED faq_vars

\* lines 312-336: the buckets materialized, the results sorted and returned
Materialize ==
    /\ pc = "fold"
    /\ pos = Len(master_records)
    /\ IF \E i \in 1..Len(aggregated.keys) :
              sort_raises(aggregated.entries[aggregated.keys[i]].history)
       THEN pc' = "raised" /\ UNCHANGED aggregated_records
       ELSE /\ aggregated_records' =
                  sort_results_from(<<>>,
                      [i \in 1..Len(aggregated.keys) |->
                          materialize(aggregated.entries[aggregated.keys[i]])], 1)
            /\ pc' = "returned"
    /\ UNCHANGED << original, records, ordered, ordered2, excel_files,
                    master_records, summary, written, aggregated, pos >>
    /\ UNCHANGED faq_vars

NextFold == FoldRecord \/ Materialize

SpecFold == InitFold /\ [][NextFold]_vars

\* ------------------------------------------------------------------------
\* aggregate_records applied to records with malformed version labels
\* ------------------------------------------------------------------------
V_2_x == Str(<<50, 46, 120>>)   \* "2.x"
V_2_ == Str(<<50, 46>>)         \* "2."
V_x == Str(<<120>>)             \* "x"
MalformedVersions == {V_2_x, V_2_, V_x}

\* Records of one product in two well-formed and two malformed versions, and
\* of a second product in a well-formed and a malformed version.
MalformedPool ==
    { With(BaseRow, "version", ver) : ver \in {V_2_9, V_2_10, V_2_x, V_2_} }
    \cup { With(With(BaseRow, "version", ver), "manufacturer", Str(<<78>>)) :
            ver \in {V_2_9, V_x} }

InitAggMalformed ==
    /\ pc = "call"
    /\ master_records \in SeqUpTo(MalformedPool, MaxAggRows)
    /\ original = <<>>
    /\ records = <<>>
    /\ ordered = <<>>
    /\ ordered2 = <<>>
    /\ excel_files = <<>>
    /\ summary = <<>>
    /\ aggregated_records = <<>>
    /\ written = <<>>
    /\ NoFold
    /\ NoFaq

SpecAggMalformed == InitAggMalformed /\ [][NextAgg]_vars

\* ------------------------------------------------------------------------
\* aggregate_records applied to records of products that differ in name and
\* packaging
\* ------------------------------------------------------------------------
\* Records of one version with a product_name "A", "B", "" or none and a
\* packaging "P" or none, and of two products of another manufacturer.
SortPool ==
    { With(With(BaseRow, "product_name", name), "packaging", pack) :
        name \in {Str(<<65>>), Str(<<66>>), EmptyStr, None},
        pack \in {Str(<<80>>), None} }
    \cup { With(With(BaseRow, "product_name", name), "manufacturer", Str(<<78>>)) :
            name \in {Str(<<65>>), None} }

InitAggSort ==
    /\ pc = "call"
    /\ master_records \in SeqUpTo(SortPool, MaxAggRows)
    /\ original = <<>>
    /\ records = <<>>
    /\ ordered = <<>>
    /\ ordered2 = <<>>
    /\ excel_files = <<>>
    /\ summary = <<>>
    /\ aggregated_records = <<>>
    /\ written = <<>>
    /\ NoFold
    /\ NoFaq

SpecAggSort == InitAggSort /\ [][NextAgg]_vars

\* ------------------------------------------------------------------------
\* main: every snapshot file is read, filtered and deduplicated, the records
\* of all snapshots are sorted and aggregated, then the outputs are written
\* ------------------------------------------------------------------------
SnapshotVersions == {V_2_9, V_2_10}

\* The rows a snapshot file can hold (cells already normalised): a full row,
\* a duplicate of it that lacks the manufacturer, two rows without an
\* authorization_number, and a row without product_name.
FileRowPool ==
    { BaseRow,
      With(With(With(BaseRow, "manufacturer", None), "price_retail", Num(12)),
           "serial_number", Num(2)),
      With(BaseRow, "authorization_number", None),
      With(With(With(BaseRow, "authorization_number", None), "price_retail", None),
           "serial_number", Num(2)),
      With(BaseRow, "product_name", None) }

\* line 215: the record of a row carries the version of its file
build_record(row, version) == With(row, "version", version)

\* line 353: sorted(excel_files, key=version_key(extract_version(path)))
RECURSIVE insert_file(_, _)
insert_file(sorted, version) ==
    IF sorted = <<>> THEN <<version>>
    ELSE IF tuple_lt(version_key(version), version_key(Head(sorted)))
    THEN <<version>> \o sorted
    ELSE <<Head(sorted)>> \o insert_file(Tail(sorted), version)

RECURSIVE sort_files_from(_, _, _)
sort_files_from(sorted, files, i) ==
    IF i > Len(files) THEN sorted
    ELSE sort_files_from(insert_file(sorted, files[i]), files, i + 1)

\* variant: the master list sorted on serial_number alone
master_lt_serial(a, b) ==
    LET sa == IF truthy(get(a, "serial_number")) THEN a["serial_number"].v[1] ELSE 0
        sb == IF truthy(get(b, "serial_number")) THEN b["serial_number"].v[1] ELSE 0
    IN  sa < sb

\* line 376: the sort key (version_key(version), serial_number or 0)
master_lt(a, b) ==
    LET ka == version_key(a["version"])
        kb == version_key(b["version"])
        sa == IF truthy(get(a, "serial_number")) THEN a["serial_number"].v[1] ELSE 0
        sb == IF truthy(get(b, "serial_number")) THEN b["serial_number"].v[1] ELSE 0
    IN  tuple_lt(ka, kb) \/ (ka = kb /\ sa < sb)

RECURSIVE insert_master(_, _)
insert_master(sorted, record) ==
    IF sorted = <<>> THEN <<record>>
    ELSE IF master_lt(record, Head(sorted))
    THEN <<record>> \o sorted
    ELSE <<Head(sorted)>> \o insert_master(Tail(sorted), record)

RECURSIVE sort_master_from(_, _, _)
sort_master_from(sorted, recs, i) ==
    IF i > Len(recs) THEN sorted
    ELSE sort_master_from(insert_master(sorted, recs[i]), recs, i + 1)

IsTruthyName(record) == truthy(get(record, "product_name"))

IsTruthyValidity(record) == truthy(get(record, "valid_until"))

\* the files discovered, in any order, put in the order the loop visits them
Init ==
    /\ pc = "files"
    /\ \E files \in SeqUpTo(SnapshotVersions, Cardinality(SnapshotVersions)) :
          /\ files # <<>>
          /\ \A i, j \in 1..Len(files) : i # j => files[i] # files[j]
          /\ excel_files = sort_files_from(<<>>, files, 1)
    /\ master_records = <<>>
    /\ summary = <<>>
    /\ original = <<>>
    /\ records = <<>>
    /\ ordered = <<>>
    /\ ordered2 = <<>>
    /\ aggregated_records = <<>>
    /\ written = <<>>
    /\ NoFold
    /\ NoFaq

\* lines 353-374: one iteration of the loop over the files
ProcessFile ==
    /\ pc = "files"
    /\ excel_files # <<>>
    /\ \E rows \in SeqUpTo(FileRowPool, MaxFileRows) :
          LET version == Head(excel_files)
              built == [i \in 1..Len(rows) |-> build_record(rows[i], version)]
              version_records == deduplicate_records(SelectSeq(built, IsTruthyName))
              valid == SelectSeq(version_records, IsTruthyValidity)
          IN  /\ master_records' = master_records \o version_records
              /\ summary' = Append(summary,
                    [ version |-> version,
                      record_count |-> Len(version_records),
                      valid_until_values |->
                          { valid[i]["valid_until"] : i \in 1..Len(valid) } ])
    /\ excel_files' = Tail(excel_files)
    /\ UNCHANGED << pc, original, records, ordered, ordered2,
                    aggregated_records, written >>
    /\ UNCHANGED fold_vars
    /\ UNCHANGED faq_vars

\* lines 128-129: visible_headers raises ValueError for a workbook without
\* visible headers, which ends main before the file contributes anything
FileFails ==
    /\ pc = "files"
    /\ excel_files # <<>>
    /\ pc' = "raised"
    /\ UNCHANGED << original, records, ordered, ordered2, excel_files,
                    master_records, summary, aggregated_records, written >>
    /\ UNCHANGED fold_vars
    /\ UNCHANGED faq_vars

\* lines 376-377
SortAndAggregate ==
    /\ pc = "files"
    /\ excel_files = <<>>
    /\ master_records' = sort_master_from(<<>>, master_records, 1)
    /\ IF aggregate_raises(master_records')
       THEN pc' = "raised" /\ UNCHANGED aggregated_records
       ELSE /\ aggregated_records' = aggregate_records(master_records')
            /\ pc' = "aggregated"
    /\ UNCHANGED << original, records, ordered, ordered2, excel_files,
                    summary, written >>
    /\ UNCHANGED fold_vars
    /\ UNCHANGED faq_vars

\* variant: records.json written while files are still to be processed
WriteRecords_early ==
    /\ pc = "files"
    /\ written' = Append(written, "records.json")
    /\ pc' = "records_written"
    /\ UNCHANGED << original, records, ordered, ordered2, excel_files,
                    master_records, summary, aggregated_records >>
    /\ UNCHANGED fold_vars
    /\ UNCHANGED faq_vars

\* lines 380-386
WriteRecords ==
    /\ pc = "aggregated"
    /\ written' = Append(written, "records.json")
    /\ pc' = "records_written"
    /\ UNCHANGED << original, records, ordered, ordered2, excel_files,
                    master_records, summary, aggregated_records >>
    /\ UNCHANGED fold_vars
    /\ UNCHANGED faq_vars

\* lines 387-393
WriteVersions ==
    /\ pc = "records_written"
    /\ written' = Append(written, "versions.json")
    /\ pc' = "done"
    /\ UNCHANGED << original, records, ordered, ordered2, excel_files,
                    master_records, summary, aggregated_records >>
    /\ UNCHANGED fold_vars
    /\ UNCHANGED faq_vars

Next ==
    ProcessFile \/ FileFails \/ SortAndAggregate \/ WriteRecords \/ WriteVersions

Spec == Init /\ [][Next]_vars

\* ========================================================================
\* scrape_atk_faq.py
\* A FAQ is a record of page, question, answer_html and id; a str is Str of
\* its code points.
\* ========================================================================
\* the variables of generate_drug_prices.py, which the scraper leaves alone
price_vars == << original, records, ordered, ordered2, excel_files,
                 master_records, summary, aggregated_records, written,
                 aggregated, pos >>

NoPrices ==
    /\ original = <<>>
    /\ records = <<>>
    /\ ordered = <<>>
    /\ ordered2 = <<>>
    /\ excel_files = <<>>
    /\ master_records = <<>>
    /\ summary = <<>>
    /\ aggregated_records = <<>>
    /\ written = <<>>
    /\ NoFold

\* lines 37-39: faq_id or question
faq_key(question, faq_id) == IF truthy(faq_id) THEN faq_id ELSE question

\* the characters str.strip() removes: space and newline
Whitespace == {32, 10}

RECURSIVE lstrip(_)
lstrip(s) == IF s # <<>> /\ Head(s) \in Whitespace THEN lstrip(Tail(s)) ELSE s

RECURSIVE rstrip(_)
rstrip(s) ==
    IF s # <<>> /\ s[Len(s)] \in Whitespace THEN rstrip(SubSeq(s, 1, Len(s) - 1)) ELSE s

strip(s) == rstrip(lstrip(s))

\* str.lower() on the letters A-Z
lower(s) == [i \in 1..Len(s) |-> IF s[i] \in 65..90 THEN s[i] + 32 ELSE s[i]]

TagOpen == 60     \* "<"
TagClose == 62    \* ">"

\* the text of a piece of markup: what stands outside its tags
RECURSIVE text_of(_, _, _)
text_of(html, in_tag, acc) ==
    IF html = <<>> THEN acc
    ELSE IF in_tag
    THEN text_of(Tail(html), Head(html) # TagClose, acc)
    ELSE IF Head(html) = TagOpen
    THEN text_of(Tail(html), TRUE, acc)
    ELSE text_of(Tail(html), FALSE, Append(acc, Head(html)))

\* lines 75-79: BeautifulSoup(answer_html).get_text(" ", strip=True), for
\* markup that holds one run of text
answer_text(answer_html) ==
    IF answer_html = <<>> THEN <<>> ELSE strip(text_of(answer_html, FALSE, <<>>))

\* "please fill in an answer"
PLACEHOLDER ==
    << 112, 108, 101, 97, 115, 101, 32, 102, 105, 108, 108, 32, 105, 110, 32,
       97, 110, 32, 97, 110, 115, 119, 101, 114 >>

\* lines 82-84
is_placeholder_answer(answer_html) == lower(answer_text(answer_html)) = PLACEHOLDER

\* variant: the longer answer wins whatever its kind
pick_best_faq_longest(current, candidate) ==
    IF Len(strip(candidate.answer_html.v)) > Len(strip(current.answer_html.v))
    THEN candidate
    ELSE current

\* lines 117-135
pick_best_faq(current, candidate) ==
    LET current_placeholder == is_placeholder_answer(current.answer_html.v)
        candidate_placeholder == is_placeholder_answer(candidate.answer_html.v)
    IN  IF current_placeholder /\ ~candidate_placeholder THEN candidate
        ELSE IF candidate_placeholder /\ ~current_placeholder THEN current
        ELSE IF Len(strip(candidate.answer_html.v)) > Len(strip(current.answer_html.v))
        THEN candidate
        ELSE current

\* lines 145-151: one iteration of the loop of dedupe_faqs
dedupe_step(st, faq) ==
    LET key == faq_key(faq.question, faq.id)
    IN  IF key \in DOMAIN st.best
        THEN [st EXCEPT !.best[key] = pick_best_faq(@, faq)]
        ELSE [ ordered_keys |-> Append(st.ordered_keys, key),
               best |-> (key :> faq) @@ st.best ]

RECURSIVE dedupe_loop(_, _, _)
dedupe_loop(st, list, i) ==
    IF i > Len(list) THEN st ELSE dedupe_loop(dedupe_step(st, list[i]), list, i + 1)

\* lines 138-153
dedupe_faqs(list) ==
    LET st == dedupe_loop([ordered_keys |-> <<>>, best |-> <<>>], list, 1)
    IN  [i \in 1..Len(st.ordered_keys) |-> st.best[st.ordered_keys[i]]]

\* ------------------------------------------------------------------------
\* dedupe_faqs applied to an arbitrary list of FAQs
\* ------------------------------------------------------------------------
FAQ(on_page, question, answer_html, id) ==
    [page |-> on_page, question |-> question, answer_html |-> answer_html, id |-> id]

ID_1 == Str(<<102, 49>>)    \* "f1"
ID_2 == Str(<<102, 50>>)    \* "f2"
QUESTION == Str(<<81>>)     \* "Q"

PlaceholderText == <<80>> \o Tail(PLACEHOLDER)               \* "Please fill ..."
A_PLACEHOLDER == Str(PlaceholderText)
A_PLACEHOLDER_P ==                                            \* "<p>Please ...</p>"
    Str(<<60, 112, 62>> \o PlaceholderText \o <<60, 47, 112, 62>>)
A_YES == Str(<<89, 101, 115>>)                                \* "Yes"
A_YES_PADDED == Str(<<32, 89, 101, 115, 32>>)                 \* " Yes "
A_NO == Str(<<78, 111>>)                                      \* "No"
A_LONG == Str(<<89, 101, 115, 44, 32, 105, 116, 32, 105, 115>>)  \* "Yes, it is"

\* FAQs of the id "f1" with each answer, a FAQ without id whose question is
\* the text "f1", a FAQ with an empty id, and FAQs of the id "f2".
FaqPool ==
    { FAQ(Num(1), QUESTION, a, ID_1) :
        a \in {A_PLACEHOLDER, A_PLACEHOLDER_P, A_YES, A_YES_PADDED, A_NO, A_LONG} }
    \cup { FAQ(Num(1), ID_1, A_NO, None),
           FAQ(Num(1), QUESTION, A_YES, EmptyStr),
           FAQ(Num(2), QUESTION, A_PLACEHOLDER, ID_2),
           FAQ(Num(2), QUESTION, A_YES, ID_2) }

InitFaqDedupe ==
    /\ pc = "call"
    /\ faqs \in SeqUpTo(FaqPool, MaxFaqs)
    /\ deduped = <<>>
    /\ NoStream
    /\ NoPrices

DedupeFaqs ==
    /\ pc = "call"
    /\ deduped' = dedupe_faqs(faqs)
    /\ pc' = "returned"
    /\ UNCHANGED faqs
    /\ UNCHANGED stream_vars
    /\ UNCHANGED price_vars

NextFaqDedupe == DedupeFaqs

SpecFaqDedupe == InitFaqDedupe /\ [][NextFaqDedupe]_vars

\* ------------------------------------------------------------------------
\* dump_streaming
\* ------------------------------------------------------------------------
KeysIn(list) == { faq_key(list[i].question, list[i].id) : i \in 1..Len(list) }

\* lines 263-275: what save_json writes: the deduplicated FAQs that have an
\* answer text, without their page.  (mask_question redacts phone numbers and
\* e-mail addresses; the questions of the model hold neither.)
save_json(list) ==
    LET kept == SelectSeq(dedupe_faqs(list),
                          LAMBDA faq : answer_text(faq.answer_html.v) # <<>>)
    IN  [i \in 1..Len(kept) |->
            [ question |-> kept[i].question,
              answer_html |-> kept[i].answer_html,
              id |-> kept[i].id ]]

\* variant: a page with new items leaves the streak as it is
next_streak_kept(streak, new_faqs) ==
    IF new_faqs = <<>> THEN streak + 1 ELSE streak

\* lines 356-361: empty_streak after a page
next_streak(streak, new_faqs) ==
    IF new_faqs = <<>> THEN streak + 1 ELSE 0

F_1 == FAQ(None, QUESTION, A_YES, ID_1)
F_1_LONG == FAQ(None, QUESTION, A_LONG, ID_1)
F_2 == FAQ(None, QUESTION, A_YES, ID_2)
F_3 == FAQ(None, ID_2, A_PLACEHOLDER, None)    \* no id: its key is its question "f2"

\* what parse_faqs can find on a page
PageContents == { <<>>, <<F_1>>, <<F_2>>, <<F_1_LONG, F_3>> }

\* lines 313-338: the state before the loop; with resume the output file of
\* an earlier run has been loaded
InitStream ==
    /\ pc = "loop"
    /\ existing \in {<<>>, <<F_1>>}
    /\ seen = KeysIn(existing)
    /\ page \in 1..MaxPages
    /\ total_pages \in 1..MaxPages
    /\ max_empty_pages \in 1..MaxEmptyPages
    /\ empty_streak = 0
    /\ added = 0
    /\ saved = save_json(existing)
    /\ last_page = 0
    /\ log = <<>>
    /\ faqs = <<>>
    /\ deduped = <<>>
    /\ NoPrices

\* lines 341-378: one iteration of the loop over the pages
ProcessPage ==
    /\ pc = "loop"
    /\ page <= total_pages
    /\ \E content \in PageContents :
          LET parsed == [i \in 1..Len(content) |-> [content[i] EXCEPT !.page = Num(page)]]
              new_faqs == SelectSeq(parsed,
                              LAMBDA f : faq_key(f.question, f.id) \notin seen)
              streak == next_streak(empty_streak, new_faqs)
              stop_after_save == new_faqs = <<>> /\ streak >= max_empty_pages
          IN  /\ log' = Append(log, [ page |-> page, found |-> Len(parsed),
                                      new |-> Len(new_faqs) ])
              /\ empty_streak' = streak
              /\ existing' = existing \o new_faqs
              /\ added' = added + Len(new_faqs)
              /\ seen' = seen \cup KeysIn(new_faqs)
              /\ saved' = save_json(existing')
              /\ last_page' = page
              /\ IF stop_after_save
                 THEN pc' = "stopped" /\ UNCHANGED page
                 ELSE pc' = "loop" /\ page' = page + 1
    /\ UNCHANGED << total_pages, max_empty_pages, faqs, deduped >>
    /\ UNCHANGED price_vars

\* lines 327, 345: fetch_html raises (the first page is fetched before the
\* loop, whatever the start page)
FetchFails ==
    /\ pc = "loop"
    /\ log = <<>> \/ page <= total_pages
    /\ pc' = "raised"
    /\ UNCHANGED faq_vars
    /\ UNCHANGED price_vars

\* lines 379-381: after the loop, by break or at the end of the range
FinishStream ==
    /\ pc = "stopped" \/ (pc = "loop" /\ page > total_pages)
    /\ saved' = save_json(existing)
    /\ pc' = "done"
    /\ UNCHANGED << page, total_pages, max_empty_pages, empty_streak, added,
                    seen, existing, last_page, log, faqs, deduped >>
    /\ UNCHANGED price_vars

NextStream == ProcessPage \/ FetchFails \/ FinishStream

SpecStream == InitStream /\ [][NextStream]_vars

\* ========================================================================
\* Properties of deduplicate_records (SpecDedup)
\* ========================================================================
DedupTuple(record) ==
    [i \in 1..Len(DEDUPLICATION_FIELDS) |-> get(record, DEDUPLICATION_FIELDS[i])]

HasNullKeyComponent(record) ==
    \E f \in Range(DEDUPLICATION_FIELDS) : get(record, f) = None

IsEmptyValue(x) == x = None \/ x = EmptyStr \/ x = EmptyList

Returned == pc \in {"returned", "again"}

\* the positions of the records passed in that carry the key of record
Group(record) ==
    { j \in 1..Len(original) : DedupTuple(original[j]) = DedupTuple(record) }

AllFieldsOf(positions) == UNION { DOMAIN original[j] : j \in positions }

Min(S) == CHOOSE x \in S : \A y \in S : x <= y

\* C1: the output of deduplicate_records holds no two records with the same
\* Deduplication Key when that key has no null component.
C1_KeyUniqueness ==
    Returned =>
        \A i, j \in 1..Len(ordered) :
            (i < j /\ ~HasNullKeyComponent(ListOf(ordered)[i]))
                => DedupTuple(ListOf(ordered)[i]) # DedupTuple(ListOf(ordered)[j])

\* C1 witness: a snapshot with two rows of one non-null key was deduplicated.
C1_Witness ==
    /\ pc = "returned"
    /\ \E i, j \in 1..Len(original) :
          /\ i < j
          /\ ~HasNullKeyComponent(original[i])
          /\ DedupTuple(original[i]) = DedupTuple(original[j])
    /\ Len(ordered) < Len(original)

\* C7: for every non-null Deduplication Key there is a surviving record, and
\* each of its fields holds the first non-empty value (not None, "" or [])
\* among the records of that key in arrival order; a field is empty in the
\* survivor only if it is empty in every record of the key.
C7_FirstNonEmptyWins ==
    Returned =>
        /\ \A j \in 1..Len(original) :
              ~HasNullKeyComponent(original[j]) =>
                  \E i \in 1..Len(ordered) :
                      DedupTuple(ListOf(ordered)[i]) = DedupTuple(original[j])
        /\ \A i \in 1..Len(ordered) :
              LET survivor == ListOf(ordered)[i]
                  group == Group(survivor)
              IN  ~HasNullKeyComponent(survivor) =>
                      \A f \in AllFieldsOf(group) :
                          LET filled == { j \in group :
                                            ~IsEmptyValue(get(original[j], f)) }
                          IN  IF filled = {}
                              THEN IsEmptyValue(get(survivor, f))
                              ELSE get(survivor, f) = original[Min(filled)][f]

\* C7 witness: the first row of a key lacks the manufacturer, a later row of
\* the key has it, and the survivor carries it (Scenario B).
C7_Witness ==
    /\ pc = "returned"
    /\ \E i, j \in 1..Len(original) :
          /\ i < j
          /\ ~HasNullKeyComponent(original[i])
          /\ DedupTuple(original[i]) = DedupTuple(original[j])
          /\ \A k \in 1..(i - 1) : DedupTuple(original[k]) # DedupTuple(original[i])
          /\ get(original[i], "manufacturer") = None
          /\ ~IsEmptyValue(get(original[j], "manufacturer"))
          /\ \E k \in 1..Len(ordered) :
                /\ DedupTuple(ListOf(ordered)[k]) = DedupTuple(original[i])
                /\ ~IsEmptyValue(get(ListOf(ordered)[k], "manufacturer"))

\* C8: a record with a null component in its Deduplication Key is never
\* merged: the null-key records of the output are the null-key records of the
\* input, in order and with every field unchanged, the input objects are left
\* as they were, and every field value of a surviving keyed record comes from
\* a record of its own key.
C8_NullKeyPassesThrough ==
    Returned =>
        /\ SelectSeq(ListOf(ordered), HasNullKeyComponent)
              = SelectSeq(original, HasNullKeyComponent)
        /\ \A j \in 1..Len(original) :
              HasNullKeyComponent(original[j]) => records[j] = original[j]
        /\ \A i \in 1..Len(ordered) :
              LET survivor == ListOf(ordered)[i]
              IN  ~HasNullKeyComponent(survivor) =>
                      \A f \in DOMAIN survivor :
                          \E j \in Group(survivor) : get(original[j], f) = survivor[f]

\* C8 witness: a row with a null authorization_number arrived together with a
\* row that matches it in every other descriptor field (Scenario D), and with
\* a second row equal to it.
C8_Witness ==
    /\ pc = "returned"
    /\ \E i, j, k \in 1..Len(original) :
          /\ i # j /\ j # k /\ i # k
          /\ get(original[j], "authorization_number") = None
          /\ get(original[i], "authorization_number") # None
          /\ \A f \in Range(DESCRIPTOR_FIELDS) \ {"authorization_number"} :
                get(original[i], f) = get(original[j], f)
          /\ original[k] = original[j]
    /\ Len(ordered) = Len(original)

\* C9: deduplicate_records is idempotent: called on its own output it returns
\* a list equal to that output in length, order and every field value.
C9_Idempotent ==
    pc = "again" => ListOf(ordered2) = ListOf(ordered)

\* C9 witness: the first call merged duplicates and the second call ran on an
\* output that still holds keyed and null-key records.
C9_Witness ==
    /\ pc = "again"
    /\ Len(ordered) < Len(original)
    /\ \E i, j \in 1..Len(ordered) :
          /\ HasNullKeyComponent(ListOf(ordered)[i])
          /\ ~HasNullKeyComponent(ListOf(ordered)[j])

\* ========================================================================
\* Properties of aggregate_records (SpecAgg: any record list; Spec: main)
\* ========================================================================
Aggregated == pc \in {"returned", "aggregated", "records_written", "done"}

DescriptorTuple(record) ==
    [i \in 1..Len(DESCRIPTOR_FIELDS) |-> get(record, DESCRIPTOR_FIELDS[i])]

PriceAndMeta == Range(PRICE_FIELDS) \cup Range(PRICE_META_FIELDS)

Outputs == 1..Len(aggregated_records)

History(o) == aggregated_records[o]["version_history"].v

\* the positions of the input records bucketed under the key of output o
Bucket(o) ==
    { j \in 1..Len(master_records) :
        DescriptorTuple(master_records[j]) = DescriptorTuple(aggregated_records[o]) }

VersionOf(j) == master_records[j]["version"]

NumericGe(v, w) == tuple_ge(version_key(v), version_key(w))

Max(S) == CHOOSE x \in S : \A y \in S : x >= y

\* the last record in arrival order among those of the bucket's top version
LatestOf(o) ==
    Max({ j \in Bucket(o) : \A k \in Bucket(o) : NumericGe(VersionOf(j), VersionOf(k)) })

\* C3: version_history of every Logical Record is sorted by numeric version
\* descending: each entry's version is >= the version of the entry after it.
C3_HistoryDescending ==
    Aggregated =>
        \A o \in Outputs :
            \A k \in 1..(Len(History(o)) - 1) :
                NumericGe(History(o)[k]["version"], History(o)[k + 1]["version"])

\* C3 witness: a bucket received three records and not in descending order.
C3_Witness ==
    /\ pc = "returned"
    /\ \E o \in Outputs :
          /\ Len(History(o)) = 3
          /\ \E i, j \in Bucket(o) :
                i < j /\ ~NumericGe(VersionOf(i), VersionOf(j))

\* C4: latest_version of every Logical Record is the version of one of the
\* records of its bucket and is numerically >= the version of each of them.
C4_LatestIsMaximum ==
    Aggregated =>
        \A o \in Outputs :
            /\ \E j \in Bucket(o) : aggregated_records[o]["latest_version"] = VersionOf(j)
            /\ \A j \in Bucket(o) :
                  NumericGe(aggregated_records[o]["latest_version"], VersionOf(j))

\* C4 witness: the record with the highest version of a bucket arrived before
\* a record with a lower version, and it is the latest.
C4_Witness ==
    /\ pc = "returned"
    /\ \E o \in Outputs :
          \E i, j \in Bucket(o) :
              /\ i < j
              /\ ~NumericGe(VersionOf(j), VersionOf(i))
              /\ aggregated_records[o]["latest_version"] = VersionOf(i)

\* C5 as claimed: each price/meta field of a Logical Record holds the value of
\* the highest-version record of the bucket that has a non-null value for the
\* field, so a field populated in any record of the bucket is present.
C5_Original ==
    Aggregated =>
        \A o \in Outputs : \A f \in PriceAndMeta :
            LET having == { j \in Bucket(o) : get(master_records[j], f) # None }
            IN  IF having = {}
                THEN f \notin DOMAIN aggregated_records[o]
                ELSE /\ f \in DOMAIN aggregated_records[o]
                     /\ \E j \in having :
                           /\ \A k \in having : NumericGe(VersionOf(j), VersionOf(k))
                           /\ aggregated_records[o][f] = master_records[j][f]

\* C5 amended: each price/meta field of a Logical Record is taken from the
\* latest snapshot alone (the last-arriving record among those of the bucket's
\* highest version): the field is present exactly when that record has a
\* non-null value for it, and then holds that value.
C5_LatestSnapshotOnly ==
    Aggregated =>
        \A o \in Outputs :
            LET latest == master_records[LatestOf(o)]
            IN  \A f \in PriceAndMeta :
                    IF get(latest, f) = None
                    THEN f \notin DOMAIN aggregated_records[o]
                    ELSE /\ f \in DOMAIN aggregated_records[o]
                         /\ aggregated_records[o][f] = latest[f]

\* C5 witness: the latest record of a bucket has no retail price, an earlier
\* record of a lower version has one, and the Logical Record has none.
C5_Witness ==
    /\ pc = "returned"
    /\ \E o \in Outputs :
          /\ get(master_records[LatestOf(o)], "price_retail") = None
          /\ \E j \in Bucket(o) :
                /\ ~NumericGe(VersionOf(j), VersionOf(LatestOf(o)))
                /\ get(master_records[j], "price_retail") # None
          /\ "price_retail" \notin DOMAIN aggregated_records[o]

\* C10: aggregate_records returns one Logical Record per distinct Aggregation
\* Key of its input: no two Logical Records have the same descriptor tuple,
\* every input record has the descriptor tuple of exactly one of them, and a
\* Logical Record holds one history entry per input record with its tuple.
C10_OnePerAggregationKey ==
    Aggregated =>
        /\ Len(aggregated_records)
              = Cardinality({ DescriptorTuple(master_records[j]) :
                                j \in 1..Len(master_records) })
        /\ \A a, b \in Outputs :
              a # b => DescriptorTuple(aggregated_records[a])
                          # DescriptorTuple(aggregated_records[b])
        /\ \A j \in 1..Len(master_records) : \E o \in Outputs : j \in Bucket(o)
        /\ \A o \in Outputs : Len(History(o)) = Cardinality(Bucket(o))

\* C10 witness: two records equal in every descriptor field, the null
\* authorization_number included, and a third that differs from them in that
\* field alone, gave two Logical Records.
C10_Witness ==
    /\ pc = "returned"
    /\ Len(aggregated_records) = 2
    /\ \E i, j, k \in 1..Len(master_records) :
          /\ i < j
          /\ DescriptorTuple(master_records[i]) = DescriptorTuple(master_records[j])
          /\ get(master_records[i], "authorization_number") = None
          /\ get(master_records[k], "authorization_number") # None
          /\ \A f \in Range(DESCRIPTOR_FIELDS) \ {"authorization_number"} :
                get(master_records[k], f) = get(master_records[i], f)

\* ========================================================================
\* Properties of the whole run of main (Spec)
\* ========================================================================
\* C2 as claimed: version_history of every Logical Record built from the
\* deduplicated snapshots holds one entry per distinct contributing version:
\* no version appears twice and its length is the number of distinct versions
\* of the records with its Aggregation Key.
C2_OneEntryPerVersion ==
    Aggregated =>
        \A o \in Outputs :
            /\ \A a, b \in 1..Len(History(o)) :
                  a # b => History(o)[a]["version"] # History(o)[b]["version"]
            /\ Len(History(o)) = Cardinality({ VersionOf(j) : j \in Bucket(o) })

\* C6 as claimed: a Logical Record has a value for every descriptor and price
\* field that is non-null in some record of its bucket whose version is
\* latest_version or higher.
C6_NothingMissingAtLatest ==
    Aggregated =>
        \A o \in Outputs : \A f \in Range(STATIC_FIELDS) \cup PriceAndMeta :
            (\E j \in Bucket(o) :
                /\ NumericGe(VersionOf(j), aggregated_records[o]["latest_version"])
                /\ get(master_records[j], f) # None)
            => f \in DOMAIN aggregated_records[o]

\* ========================================================================
\* Version ordering (SpecAgg)
\* ========================================================================
V_9_3 == Str(<<57, 46, 51>>)          \* "9.3"
V_10_1 == Str(<<49, 48, 46, 49>>)     \* "10.1"

\* the integer components the version labels of the model stand for
ComponentsOf(version) ==
    CASE version = V_2_9 -> <<2, 9>>
      [] version = V_2_10 -> <<2, 10>>
      [] version = V_10 -> <<10>>
      [] version = V_9_3 -> <<9, 3>>
      [] version = V_10_1 -> <<10, 1>>

ComponentsGe(v, w) == tuple_ge(ComponentsOf(v), ComponentsOf(w))

\* C11: versions are ordered by their integer components, not as text: the
\* latest pointer of every bucket is at least each version of the bucket in
\* that order, the history descends in that order, and "2.10" > "2.9" and
\* "10.1" > "9.3" under the key the code compares.
C11_NumericVersionOrder ==
    /\ tuple_lt(version_key(V_2_9), version_key(V_2_10))
    /\ tuple_lt(version_key(V_9_3), version_key(V_10_1))
    /\ Aggregated =>
          \A o \in Outputs :
              /\ \A j \in Bucket(o) :
                    ComponentsGe(aggregated_records[o]["latest_version"], VersionOf(j))
              /\ \A k \in 1..(Len(History(o)) - 1) :
                    ComponentsGe(History(o)[k]["version"], History(o)[k + 1]["version"])

\* C11 witness: a bucket received "2.9", "2.10" and "10" (as text "10" is the
\* smallest and "2.9" the largest); "10" is the latest and the history reads
\* "10", "2.10", "2.9".
C11_Witness ==
    /\ pc = "returned"
    /\ \E o \in Outputs :
          /\ aggregated_records[o]["latest_version"] = V_10
          /\ Len(History(o)) = 3
          /\ History(o)[1]["version"] = V_10
          /\ History(o)[2]["version"] = V_2_10
          /\ History(o)[3]["version"] = V_2_9

\* ========================================================================
\* Malformed version labels (SpecAggMalformed)
\* ========================================================================
IsMalformed(record) == record["version"] \in MalformedVersions

\* C12: when a record handed to aggregate_records carries a version that is
\* no dot-separated sequence of integers, the call raises and returns no
\* Logical Record, wherever the record stands; without such a record it
\* returns.
C12_MalformedVersionRaises ==
    pc \in {"returned", "raised"} =>
        IF \E j \in 1..Len(master_records) : IsMalformed(master_records[j])
        THEN pc = "raised" /\ aggregated_records = <<>>
        ELSE pc = "returned"

\* C12 witness: the malformed record came first and is the only record of
\* its bucket, so the test of line 304 never saw its version; the call raised.
C12_Witness ==
    /\ pc = "raised"
    /\ Len(master_records) >= 2
    /\ IsMalformed(master_records[1])
    /\ \A j \in 2..Len(master_records) :
          /\ ~IsMalformed(master_records[j])
          /\ DescriptorTuple(master_records[j]) # DescriptorTuple(master_records[1])

\* ========================================================================
\* Output only after the whole reconciliation (Spec)
\* ========================================================================
\* C13: a file has been written only when every snapshot file was processed
\* and aggregate_records returned the records of the sorted master list;
\* records.json comes first, versions.json second; a run that ended in a
\* fatal condition wrote nothing.
C13_WriteAfterFold ==
    /\ written # <<>> =>
          /\ pc \in {"records_written", "done"}
          /\ excel_files = <<>>
          /\ ~aggregate_raises(master_records)
          /\ aggregated_records = aggregate_records(master_records)
    /\ written \in {<<>>, <<"records.json">>, <<"records.json", "versions.json">>}
    /\ pc = "raised" => written = <<>>
    /\ pc \in {"files", "aggregated"} => written = <<>>

\* C13 witness: both files were written after two snapshot files had been
\* deduplicated and folded.
C13_Witness ==
    /\ pc = "done"
    /\ written = <<"records.json", "versions.json">>
    /\ Len(summary) = 2
    /\ aggregated_records # <<>>

\* ========================================================================
\* Key set of a Logical Record (SpecAgg)
\* ========================================================================
Descriptors == Range(DESCRIPTOR_FIELDS)

KeysOf(o) == DOMAIN aggregated_records[o]

\* C15 as claimed: the keys of a Logical Record are populated descriptor
\* fields, populated price/meta fields, latest_version and version_history,
\* and no other key.
C15_Original ==
    Aggregated =>
        \A o \in Outputs :
            KeysOf(o) \subseteq
                Descriptors \cup PriceAndMeta \cup {"latest_version", "version_history"}

\* C15 amended: the keys of a Logical Record are exactly latest_version,
\* version_history, the descriptor fields the records of its bucket have a
\* non-null value for, the price/meta fields the latest snapshot has a
\* non-null value for, and serial_number (a static field that is no part of
\* the Aggregation Key) when the running snapshot holds one: always when the
\* latest record has one, never when no record of the bucket has one.  No key
\* has a null value.
C15_KeySet ==
    Aggregated =>
        \A o \in Outputs :
            LET latest == master_records[LatestOf(o)]
                keys == KeysOf(o)
            IN  /\ keys \subseteq {"serial_number"} \cup Descriptors \cup PriceAndMeta
                                    \cup {"latest_version", "version_history"}
                /\ {"latest_version", "version_history"} \subseteq keys
                /\ \A f \in keys : aggregated_records[o][f] # None
                /\ \A f \in Descriptors : f \in keys <=> get(latest, f) # None
                /\ \A f \in PriceAndMeta : f \in keys <=> get(latest, f) # None
                /\ get(latest, "serial_number") # None => "serial_number" \in keys
                /\ "serial_number" \in keys =>
                      \E j \in Bucket(o) : get(master_records[j], "serial_number") # None

\* C15 witness: a Logical Record with a serial_number and without the
\* authorization_number its bucket has no value for, beside one without the
\* retail price its latest snapshot has no value for.
C15_Witness ==
    /\ pc = "returned"
    /\ \E o \in Outputs :
          /\ "serial_number" \in KeysOf(o)
          /\ "authorization_number" \notin KeysOf(o)
          /\ "price_retail" \in KeysOf(o)
    /\ \E o \in Outputs :
          /\ "authorization_number" \in KeysOf(o)
          /\ "price_retail" \notin KeysOf(o)
          /\ "price_wholesale" \in KeysOf(o)
\* ========================================================================
\* Effect of deduplicate_records on its input (SpecDedup)
\* ========================================================================
\* the input positions whose record the call may complete: the first record
\* of a key without null component that has a later duplicate
Survivors ==
    { j \in 1..Len(original) :
        /\ ~HasNullKeyComponent(original[j])
        /\ j = Min(Group(original[j]))
        /\ Group(original[j]) # {j} }

\* C16 as claimed: after the call every input record has the field values it
\* had before the call.
C16_Original == Returned => records = original

\* C16 amended: the call changes no input record except a surviving record
\* that has later duplicates, which is completed in place: it keeps every
\* non-empty value it had and only its empty or absent fields change; every
\* other input record (null-key, single of its key, or absorbed duplicate) has
\* the field values it had before the call.
C16_OnlySurvivorsCompleted ==
    Returned =>
        /\ Len(records) = Len(original)
        /\ \A j \in 1..Len(original) :
              IF j \in Survivors
              THEN \A f \in DOMAIN original[j] :
                      \/ IsEmptyValue(original[j][f])
                      \/ (f \in DOMAIN records[j] /\ records[j][f] = original[j][f])
              ELSE records[j] = original[j]

\* C16 witness: the call returned and an input record no longer has the
\* field values it was passed in with, while its duplicate has.
C16_Witness ==
    /\ pc = "returned"
    /\ \E j \in Survivors :
          /\ records[j] # original[j]
          /\ \E k \in Group(original[j]) \ {j} : records[k] = original[k]

\* ========================================================================
\* Output order of deduplicate_records (SpecDedup)
\* ========================================================================
\* the input positions that get an output slot
FirstOccurrences ==
    { j \in 1..Len(original) :
        HasNullKeyComponent(original[j]) \/ j = Min(Group(original[j])) }

\* C17: the output of deduplicate_records is the subsequence of the input
\* made of every null-key record and the first record of each non-null
\* Deduplication Key, in input order: its positions are ascending and are
\* exactly those; a later duplicate has no slot.
C17_FirstOccurrenceOrder ==
    pc = "returned" =>
        /\ \A k \in 1..(Len(ordered) - 1) : ordered[k] < ordered[k + 1]
        /\ { ordered[k] : k \in 1..Len(ordered) } = FirstOccurrences
        /\ Len(ordered) = Cardinality(FirstOccurrences)

\* C17 witness: the duplicate of the first record arrived after another
\* record; the output holds the first and the second record, in that order.
C17_Witness ==
    /\ pc = "returned"
    /\ Len(original) = 3
    /\ ~HasNullKeyComponent(original[1])
    /\ DedupTuple(original[3]) = DedupTuple(original[1])
    /\ DedupTuple(original[2]) # DedupTuple(original[1])
    /\ ordered = <<1, 2>>
    /\ records[1] # original[1]

\* ========================================================================
\* One iteration of the fold of aggregate_records (SpecFold)
\* ========================================================================
Statics == {"serial_number"} \cup Descriptors

\* the price snapshot of a record: its version and its non-null price/meta
\* fields
SnapshotOf(record) ==
    [f \in {"version"} \cup { g \in PriceAndMeta : get(record, g) # None } |-> record[f]]

\* what one iteration does to the bucket of the record it takes
C18_Step ==
    LET record == master_records[pos']
        key == DescriptorTuple(record)
        after == aggregated'.entries[key]
    IN  /\ key \in DOMAIN aggregated'.entries
        /\ IF key \notin DOMAIN aggregated.entries
           THEN /\ after.latest_version = record["version"]
                /\ after.latest_snapshot = SnapshotOf(record)
                /\ \A f \in Statics : after.data[f] = get(record, f)
           ELSE LET before == aggregated.entries[key]
                IN  IF NumericGe(record["version"], before.latest_version)
                    THEN /\ after.latest_version = record["version"]
                         /\ after.latest_snapshot = SnapshotOf(record)
                         /\ \A f \in Statics :
                               after.data[f] =
                                   IF IsEmptyValue(get(record, f))
                                   THEN before.data[f]
                                   ELSE record[f]
                    ELSE /\ after.latest_version = before.latest_version
                         /\ after.latest_snapshot = before.latest_snapshot
                         /\ after.data = before.data

\* C18: an iteration of the fold that takes a record of a version >= the
\* bucket's latest_version (or the bucket's first record) sets each field of
\* the running snapshot to the incoming value unless that is empty, in which
\* case the existing value stays, and makes the record the latest; an
\* iteration that takes a record of a lower version leaves the running
\* snapshot, latest_version and the latest price snapshot as they were.
C18_PreferIncomingUnlessEmpty ==
    [][(pc = "fold" /\ pc' = "fold" /\ pos' = pos + 1) => C18_Step]_vars

\* C18 witness: the second record of a bucket, of a version not below the
\* first, brought another serial_number, which replaced the first; the third,
\* of a lower version and with yet another serial_number, changed nothing.
C18_Witness ==
    /\ pc = "fold"
    /\ pos = 3
    /\ LET key == DescriptorTuple(master_records[1])
       IN  /\ DescriptorTuple(master_records[2]) = key
           /\ DescriptorTuple(master_records[3]) = key
           /\ NumericGe(VersionOf(2), VersionOf(1))
           /\ ~NumericGe(VersionOf(3), VersionOf(2))
           /\ master_records[1]["serial_number"] = Num(1)
           /\ master_records[2]["serial_number"] = Num(2)
           /\ master_records[3]["serial_number"] = Num(1)
           /\ aggregated.entries[key].data["serial_number"] = Num(2)
           /\ aggregated.entries[key].latest_version = VersionOf(2)
           /\ Len(aggregated.entries[key].history) = 3

\* ========================================================================
\* One history entry per input record (SpecAgg)
\* ========================================================================
RECURSIVE HistoryTotal(_)
HistoryTotal(o) == IF o = 0 THEN 0 ELSE Len(History(o)) + HistoryTotal(o - 1)

\* C19: every input record contributes one entry to the version_history of
\* the one Logical Record of its bucket, latest or not: the histories hold as
\* many entries as there are input records, and the history of a Logical
\* Record holds each snapshot (the version plus the non-null price/meta
\* fields of a record) as often as its bucket holds records with that snapshot.
C19_OneHistoryEntryPerRecord ==
    Aggregated =>
        /\ HistoryTotal(Len(aggregated_records)) = Len(master_records)
        /\ \A j \in 1..Len(master_records) :
              Cardinality({ o \in Outputs : j \in Bucket(o) }) = 1
        /\ \A o \in Outputs :
              LET history == History(o)
                  bucket == Bucket(o)
              IN  /\ Len(history) = Cardinality(bucket)
                  /\ \A j \in bucket :
                        LET snapshot == SnapshotOf(master_records[j])
                        IN  Cardinality({ k \in 1..Len(history) : history[k] = snapshot })
                              = Cardinality({ i \in bucket :
                                                SnapshotOf(master_records[i]) = snapshot })

\* C19 witness: three records in two buckets; the record that is not the
\* latest of its bucket has no retail price, and its entry, without that
\* field, stands in the history behind the latest one.
C19_Witness ==
    /\ pc = "returned"
    /\ Len(master_records) = 3
    /\ Len(aggregated_records) = 2
    /\ \E o \in Outputs :
          /\ Len(History(o)) = 2
          /\ "price_retail" \in DOMAIN History(o)[1]
          /\ "price_retail" \notin DOMAIN History(o)[2]
          /\ History(o)[2]["version"] # aggregated_records[o]["latest_version"]

\* ========================================================================
\* Several records of the highest version (SpecAgg)
\* ========================================================================
\* the records of the bucket of output o that carry its latest_version
TopOf(o) ==
    { j \in Bucket(o) : VersionOf(j) = aggregated_records[o]["latest_version"] }

\* C20: when several records of a bucket carry its highest version, the
\* current price/meta fields of the Logical Record are those of the last of
\* them in arrival order, and version_history holds one entry of that version
\* for each of them.
C20_LastOfEqualVersionWins ==
    Aggregated =>
        \A o \in Outputs :
            LET top == TopOf(o)
                last == master_records[Max(top)]
                history == History(o)
            IN  Cardinality(top) >= 2 =>
                    /\ \A j \in Bucket(o) : NumericGe(last["version"], VersionOf(j))
                    /\ \A f \in PriceAndMeta :
                          get(aggregated_records[o], f) = get(last, f)
                    /\ Cardinality({ k \in 1..Len(history) :
                                        history[k]["version"] = last["version"] })
                          = Cardinality(top)
                    /\ \A j \in top :
                          \E k \in 1..Len(history) :
                              history[k] = SnapshotOf(master_records[j])

\* C20 witness: two records of the highest version with retail prices 10 and
\* then 12; the Logical Record shows 12 and its history holds both entries.
C20_Witness ==
    /\ pc = "returned"
    /\ \E o \in Outputs :
          /\ Cardinality(TopOf(o)) = 2
          /\ \E i, j \in TopOf(o) :
                /\ i < j
                /\ get(master_records[i], "price_retail") = Num(10)
                /\ get(master_records[j], "price_retail") = Num(12)
          /\ aggregated_records[o]["price_retail"] = Num(12)
          /\ Len(History(o)) >= 2
          /\ History(o)[1]["version"] = History(o)[2]["version"]
          /\ History(o)[1]["price_retail"] # History(o)[2]["price_retail"]

\* ========================================================================
\* Order of the Logical Records (SpecAggSort)
\* ========================================================================
\* a null or absent field compared as the empty string
TextOf(rec, field) ==
    IF get(rec, field) = None THEN <<>> ELSE rec[field].v

NameAndPackaging(rec) == << TextOf(rec, "product_name"), TextOf(rec, "packaging") >>

\* C21: the Logical Records are in ascending order of (product_name,
\* packaging), a null field counting as the empty string, and Logical Records
\* equal on both stand in the order in which the first records of their
\* buckets arrived.
C21_SortedByNameAndPackaging ==
    Aggregated =>
        \A a, b \in Outputs :
            a < b =>
                LET ka == NameAndPackaging(aggregated_records[a])
                    kb == NameAndPackaging(aggregated_records[b])
                IN  \/ tuple_lt(ka[1], kb[1])
                    \/ ka[1] = kb[1] /\ tuple_lt(ka[2], kb[2])
                    \/ ka = kb /\ Min(Bucket(a)) < Min(Bucket(b))

\* C21 witness: three products arrived in an order that is not the sorted
\* one: the first to arrive stands last, and the two in front of it, one
\* with a null and one with an empty product_name, are equal on both fields
\* and kept their arrival order.
C21_Witness ==
    /\ pc = "returned"
    /\ Len(master_records) = 3
    /\ Len(aggregated_records) = 3
    /\ Bucket(3) = {1}
    /\ Bucket(1) = {2}
    /\ Bucket(2) = {3}
    /\ NameAndPackaging(aggregated_records[1]) = NameAndPackaging(aggregated_records[2])
    /\ "product_name" \notin DOMAIN aggregated_records[1]
    /\ aggregated_records[2]["product_name"] = EmptyStr

\* ========================================================================
\* The head of version_history and the current fields (Spec)
\* ========================================================================
\* C22: the first entry of version_history of every Logical Record has the
\* version latest_version and, for each price/meta field, the value the
\* Logical Record has for it (or neither has the field).
C22_FirstHistoryEntryIsCurrent ==
    Aggregated =>
        \A o \in Outputs :
            LET first == History(o)[1]
            IN  /\ first["version"] = aggregated_records[o]["latest_version"]
                /\ \A f \in PriceAndMeta :
                      get(first, f) = get(aggregated_records[o], f)

\* ========================================================================
\* The latest pointer and the arrival order (SpecAgg)
\* ========================================================================
\* the records of the bucket of output o have pairwise distinct versions
DistinctVersions(o) ==
    \A i, j \in Bucket(o) : i # j => VersionOf(i) # VersionOf(j)

\* C23: whatever the order in which the records of a bucket arrived, when
\* their versions are pairwise distinct latest_version is the version of the
\* record with the numerically highest version, and the Logical Record has
\* the price/meta fields of that record: the non-null ones, with its values.
C23_LatestIndependentOfOrder ==
    Aggregated =>
        \A o \in Outputs :
            DistinctVersions(o) =>
                \E m \in Bucket(o) :
                    /\ \A j \in Bucket(o) : ComponentsGe(VersionOf(m), VersionOf(j))
                    /\ aggregated_records[o]["latest_version"] = VersionOf(m)
                    /\ \A f \in PriceAndMeta :
                          get(aggregated_records[o], f) = get(master_records[m], f)

\* C23 witness: the three versions of one product arrived as 10, 2.9, 2.10,
\* with a retail price of 12 in version 10 and of 10 in the others; the
\* Logical Record is of version 10 with the price 12.
C23_Witness ==
    /\ pc = "returned"
    /\ Len(master_records) = 3
    /\ Len(aggregated_records) = 1
    /\ VersionOf(1) = V_10
    /\ VersionOf(2) = V_2_9
    /\ VersionOf(3) = V_2_10
    /\ master_records[1]["price_retail"] = Num(12)
    /\ master_records[2]["price_retail"] = Num(10)
    /\ master_records[3]["price_retail"] = Num(10)
    /\ aggregated_records[1]["latest_version"] = V_10
    /\ aggregated_records[1]["price_retail"] = Num(12)

\* ========================================================================
\* Order of the records handed to aggregate_records (Spec)
\* ========================================================================
SerialOrZero(record) ==
    IF get(record, "serial_number") \in {None, Num(0)} THEN 0
    ELSE record["serial_number"].v[1]

\* a sequence of version labels in non-decreasing numeric order
AscendingVersions(labels) ==
    \A i, j \in 1..Len(labels) : i < j => ComponentsGe(labels[j], labels[i])

\* C24: the files are processed in ascending numeric version order, whatever
\* the order they were discovered in, and the list handed to
\* aggregate_records is in non-decreasing numeric version order, the records
\* of one version in non-decreasing order of serial_number (none as 0).
C24_AscendingVersionOrder ==
    /\ AscendingVersions([i \in 1..Len(summary) |-> summary[i].version] \o excel_files)
    /\ Aggregated =>
          \A i, j \in 1..Len(master_records) :
              i < j =>
                  /\ ComponentsGe(VersionOf(j), VersionOf(i))
                  /\ VersionOf(i) = VersionOf(j) =>
                        SerialOrZero(master_records[i]) <= SerialOrZero(master_records[j])

\* C24 witness: records of the versions 2.9 and 2.10, which stand the other
\* way round as text, were handed to aggregate_records with 2.9 first, and
\* two records of one version in the order of their serial numbers.
C24_Witness ==
    /\ pc = "aggregated"
    /\ Len(master_records) >= 3
    /\ VersionOf(1) = V_2_9
    /\ VersionOf(Len(master_records)) = V_2_10
    /\ tuple_lt(V_2_10.v, V_2_9.v)
    /\ \E i \in 1..(Len(master_records) - 1) :
          /\ VersionOf(i) = VersionOf(i + 1)
          /\ SerialOrZero(master_records[i]) < SerialOrZero(master_records[i + 1])

\* ========================================================================
\* dedupe_faqs (SpecFaqDedupe)
\* ========================================================================
\* the stable key: the id unless it is null or empty, else the question
KeyOf(faq) == IF faq.id \in {None, EmptyStr} THEN faq.question ELSE faq.id

\* the positions of the FAQs passed in that have the key of faq
Duplicates(faq) == { j \in 1..Len(faqs) : KeyOf(faqs[j]) = KeyOf(faq) }

IsPlaceholder(faq) == is_placeholder_answer(faq.answer_html.v)

StrippedLength(faq) == Len(strip(faq.answer_html.v))

\* the duplicate that is best: of the real answers if there is one, else of
\* the placeholders, the first of those with the longest stripped answer
BestOf(group) ==
    LET real == { j \in group : ~IsPlaceholder(faqs[j]) }
        class == IF real # {} THEN real ELSE group
    IN  Min({ j \in class :
                \A k \in class : StrippedLength(faqs[j]) >= StrippedLength(faqs[k]) })

\* C26: dedupe_faqs returns one FAQ per distinct stable key, the keys in the
\* order of their first occurrence, and the FAQ kept for a key is the best of
\* its duplicates: a real answer when a duplicate has one, and among the
\* duplicates of its kind the first with the longest stripped answer_html.
C26_BestPerKey ==
    pc = "returned" =>
        /\ Len(deduped) = Cardinality({ KeyOf(faqs[j]) : j \in 1..Len(faqs) })
        /\ \A a, b \in 1..Len(deduped) :
              a < b => Min(Duplicates(deduped[a])) < Min(Duplicates(deduped[b]))
        /\ \A a \in 1..Len(deduped) :
              LET group == Duplicates(deduped[a])
              IN  /\ group # {}
                  /\ deduped[a] = faqs[BestOf(group)]

\* C26 witness: three FAQs of one key arrived as a long placeholder, "Yes"
\* and " Yes "; the one kept is "Yes", the first of the two real answers of
\* equal stripped length, although the placeholder is longer.
C26_Witness ==
    /\ pc = "returned"
    /\ Len(faqs) = 3
    /\ Len(deduped) = 1
    /\ faqs[1].answer_html = A_PLACEHOLDER_P
    /\ faqs[2].answer_html = A_YES
    /\ faqs[3].answer_html = A_YES_PADDED
    /\ deduped[1] = faqs[2]

\* ========================================================================
\* The loop of dump_streaming (SpecStream)
\* ========================================================================
\* the number of pages at the end of the log that brought no new item
RECURSIVE TrailingEmpty(_)
TrailingEmpty(lines) ==
    IF lines = <<>> \/ lines[Len(lines)].new # 0 THEN 0
    ELSE 1 + TrailingEmpty(SubSeq(lines, 1, Len(lines) - 1))

\* what the output file holds when the FAQs collected have been saved: one
\* entry per key collected, the keys in the order collected
SavedKeys == [i \in 1..Len(saved) |-> KeyOf(saved[i])]

\* C25: empty_streak is the number of consecutive pages, up to the last one
\* processed, that brought no unseen FAQ key (so a page with a new item sets
\* it to zero); the loop takes a further page only while that number is
\* below max_empty_pages, and stops when it reaches it; when the loop has
\* stopped, the state file names the last page processed and the output file
\* holds the FAQs collected up to and including that page.
C25_StopsAfterEmptyPages ==
    pc \in {"loop", "stopped", "done"} =>
        /\ empty_streak = TrailingEmpty(log)
        /\ pc = "loop" => empty_streak < max_empty_pages
        /\ pc = "stopped" =>
              /\ empty_streak = max_empty_pages
              /\ log # <<>>
              /\ last_page = log[Len(log)].page
              /\ page = last_page
              /\ { SavedKeys[i] : i \in 1..Len(saved) } \subseteq seen
              /\ \A j \in 1..Len(existing) :
                    answer_text(existing[j].answer_html.v) # <<>> =>
                        \E i \in 1..Len(saved) : SavedKeys[i] = KeyOf(existing[j])
        /\ \A k \in 1..Len(log) :
              /\ log[k].page = log[1].page + k - 1
              /\ k < Len(log) =>
                    TrailingEmpty(SubSeq(log, 1, k)) < max_empty_pages

\* C25 witness: with max_empty_pages = 2 the first page brought nothing new,
\* the second a new item, the third and fourth nothing; the loop stopped
\* after the fourth page with the range not exhausted.
C25_Witness ==
    /\ pc = "stopped"
    /\ max_empty_pages = 2
    /\ Len(log) = 4
    /\ log[1].new = 0
    /\ log[2].new > 0
    /\ log[3].new = 0
    /\ log[4].new = 0
    /\ last_page = 4
    /\ page < total_pages

====
